---- MODULE Spec2Model ----
(***************************************************************************)
(* Model of libvips/iofuncs/buffer.c: the per-thread pixel buffer cache.   *)
(*                                                                         *)
(* The heap holds VipsBuffer and VipsBufferCache objects, addressed by     *)
(* small positive integers (0 is the NULL pointer).  Each worker thread    *)
(* has a GPrivate slot (tls) naming its cache.  The callers of the module  *)
(* are modelled by the references they hold (handles): a thread passes to  *)
(* done/undone/unref/unref_ref only buffers it holds a reference to, apart *)
(* from UnrefStale, the contract violation of releasing a buffer that      *)
(* already sits in the reserve.  g_assert is taken as compiled in: a       *)
(* failing assertion aborts the process (aborted), leaving the heap as it  *)
(* was at the assertion.                                                   *)
(***************************************************************************)
EXTENDS Integers, Sequences, FiniteSets, TLC

\* ---------------------------------------------------------------- bounds
NumThreads == 2
NumImages == 2
\* references held by all threads' callers together
MaxHandles == 3
\* references held when every thread runs
MaxSharedHandles == 2
\* VipsBuffer objects alive at once (a larger heap creates no further ones)
MaxBuffers == 2

\* ------------------------------------------------------ program constants
buffer_cache_max_reserve == 40

NULL == 0
\* a pointer to a VipsBufferCache that has been freed
Dangling == -1

Threads == 1..NumThreads
Images == 1..NumImages

MkRect(l, t, w, h) == [left |-> l, top |-> t, width |-> w, height |-> h]

\* The rectangles callers ask for: two disjoint unit tiles and a tile that
\* encloses both.  Callers never ask for an empty rectangle.
Rects == {MkRect(0, 0, 1, 1), MkRect(1, 1, 1, 1), MkRect(0, 0, 2, 2)}

\* VIPS_IMAGE_SIZEOF_PEL( im ): bytes per pixel of the image; the images
\* callers use here are all one byte per pixel.
VIPS_IMAGE_SIZEOF_PEL(im) == 1

VARIABLES
    buffers,    \* live VipsBuffer objects: [address -> struct]
    caches,     \* live VipsBufferCache objects: [address -> struct]
    tls,        \* g_private_get( thread_buffer_cache_key ) per thread
    handles,    \* references each thread's callers hold: [thread -> [buffer -> count]]
    aborted,    \* a g_assert has failed
    last        \* the call made by the last step and what it returned

vars == <<buffers, caches, tls, handles, aborted, last>>

\* ------------------------------------------------------------ list helpers
g_slist_prepend(list, x) == <<x>> \o list

g_slist_find(list, x) == \E i \in 1..Len(list) : list[i] = x

\* removes the first element equal to x, if any
g_slist_remove(list, x) ==
    IF ~g_slist_find(list, x) THEN list
    ELSE LET i == CHOOSE k \in 1..Len(list) :
                      list[k] = x /\ \A j \in 1..(k - 1) : list[j] # x
         IN  SubSeq(list, 1, i - 1) \o SubSeq(list, i + 1, Len(list))

Without(f, x) == [y \in (DOMAIN f) \ {x} |-> f[y]]

\* g_new() on thread t: an address not in use.  Thread t is handed the
\* lowest free address among t, t + NumThreads, t + 2 * NumThreads, ...
\* Pointers to an object that has been freed are kept apart from the
\* addresses in use (Dangling), so a reused address never makes one valid.
FreshAddr(used, t) ==
    LET Addr(k) == t + NumThreads * k
        k0 == CHOOSE k \in 0..Cardinality(used) :
                  Addr(k) \notin used /\ \A j \in 0..(k - 1) : Addr(j) \in used
    IN  Addr(k0)

\* vips_rect_includesrect( r1, r2 ): r1 encloses r2
vips_rect_includesrect(r1, r2) ==
    /\ r1.left <= r2.left
    /\ r1.top <= r2.top
    /\ r1.left + r1.width >= r2.left + r2.width
    /\ r1.top + r1.height >= r2.top + r2.height

\* ------------------------------------------------------------------- heap
\* The heap a call works on, with the registers the call leaves behind:
\* cache (buffer_cache_get's result), ret (a returned buffer), rc (an int
\* result), path and unref (the branches taken), made (the buffer
\* vips_buffer_new worked on), allocs (what was allocated).  A function is
\* written as the composition of its stages, each stage taking the heap the
\* stage before it left.
Heap ==
    [buffers |-> buffers, caches |-> caches, tls |-> tls, aborted |-> aborted,
     cache |-> NULL, ret |-> NULL, rc |-> 0, path |-> "", unref |-> "",
     made |-> NULL, allocs |-> {}]

SetPath(S, p) == IF S.aborted THEN S ELSE [S EXCEPT !.path = p]

\* a failed g_assert
Abort(S) == [S EXCEPT !.aborted = TRUE, !.ret = NULL, !.rc = -1, !.path = "abort"]

\* cache->hash maps an image to its VipsBufferCacheList; hash[im] is that
\* list's buffers, and an image with no entry yet has the empty list (every
\* lookup treats a missing entry as an empty list, and an entry, once made,
\* stays until the hash is destroyed).  A list's thread and cache fields
\* are those of the cache that holds it.
buffer_cache_new(t) ==
    [hash |-> [im \in Images |-> <<>>], thread |-> t, reserve |-> <<>>,
     n_reserve |-> 0]

\* g_private_set( thread_buffer_cache_key, cache ), the new cache at address c
buffer_cache_set(S, t, c) ==
    [S EXCEPT !.caches = S.caches @@ (c :> buffer_cache_new(t)),
              !.tls[t] = c,
              !.cache = c]

\* one cache for the whole process instead of one per thread
buffer_cache_get_Shared(S, t) ==
    IF S.tls[1] # NULL
    THEN [S EXCEPT !.cache = S.tls[1]]
    ELSE buffer_cache_set(S, 1, FreshAddr(DOMAIN S.caches, 1))

buffer_cache_get(S, t) ==
    IF S.tls[t] # NULL
    THEN [S EXCEPT !.cache = S.tls[t]]
    ELSE buffer_cache_set(S, t, FreshAddr(DOMAIN S.caches, t))

vips_buffer_free(S, b) ==
    [S EXCEPT !.buffers = Without(S.buffers, b)]

\* g_new0( VipsBuffer, 1 ) as vips_buffer_new() fills it in
NewBuffer(im) ==
    [ref_count |-> 1, im |-> im, done |-> FALSE, cache |-> NULL,
     area |-> MkRect(0, 0, 0, 0), buf |-> FALSE, bsize |-> 0]

Members(list) == {list[i] : i \in 1..Len(list)}

\* leaves the buffers of the reserve allocated
buffer_cache_free_reserve_Leaks(S, c) == S

\* buffer_cache_free(): vips_buffer_free() of every buffer of the reserve
buffer_cache_free_reserve(S, c) ==
    [S EXCEPT !.buffers = [b \in (DOMAIN S.buffers) \ Members(S.caches[c].reserve) |->
                              S.buffers[b]]]

\* buffer_cache_list_free() of every list of the hash: the members are
\* marked undone; buffer->cache is left as it was, pointing at the cache
\* that buffer_cache_free() is freeing
buffer_cache_list_free(S, c) ==
    [S EXCEPT !.buffers =
        [b \in DOMAIN S.buffers |->
            IF \E im \in Images : g_slist_find(S.caches[c].hash[im], b)
            THEN [S.buffers[b] EXCEPT !.done = FALSE, !.cache = Dangling]
            ELSE S.buffers[b]]]

buffer_cache_free(S, c) ==
    [buffer_cache_list_free(buffer_cache_free_reserve(S, c), c)
        EXCEPT !.caches = Without(S.caches, c)]

\* appends to the list instead of prepending
vips_buffer_done_add_Appends(S, b) ==
    IF g_slist_find(S.caches[S.cache].hash[S.buffers[b].im], b) THEN Abort(S)
    ELSE [S EXCEPT !.caches[S.cache].hash[S.buffers[b].im] = Append(@, b),
                   !.buffers[b].done = TRUE,
                   !.buffers[b].cache = S.cache]

\* vips_buffer_done(), from the lookup of the list on
vips_buffer_done_add(S, b) ==
    IF g_slist_find(S.caches[S.cache].hash[S.buffers[b].im], b) THEN Abort(S)
    ELSE [S EXCEPT !.caches[S.cache].hash[S.buffers[b].im] = g_slist_prepend(@, b),
                   !.buffers[b].done = TRUE,
                   !.buffers[b].cache = S.cache]

vips_buffer_done(S, t, b) ==
    IF S.buffers[b].done THEN S
    ELSE vips_buffer_done_add(buffer_cache_get(S, t), b)

\* clears done but leaves the buffer on its list
vips_buffer_undone_remove_StaysListed(S, t, b) ==
    IF S.aborted \/ ~S.buffers[b].done THEN S
    ELSE [S EXCEPT !.buffers[b].done = FALSE, !.buffers[b].cache = NULL]

\* vips_buffer_undone(): if( buffer->done ) { ... }
vips_buffer_undone_remove(S, t, b) ==
    IF S.aborted \/ ~S.buffers[b].done THEN S
    ELSE IF S.buffers[b].cache \notin DOMAIN S.caches THEN Abort(S)
    ELSE IF S.caches[S.buffers[b].cache].thread # t THEN Abort(S)
    ELSE IF ~g_slist_find(S.caches[S.buffers[b].cache].hash[S.buffers[b].im], b)
    THEN Abort(S)
    ELSE [S EXCEPT !.caches[S.buffers[b].cache].hash[S.buffers[b].im] =
                       g_slist_remove(@, b),
                   !.buffers[b].done = FALSE,
                   !.buffers[b].cache = NULL]

\* vips_buffer_undone(): buffer->area.width = 0; buffer->area.height = 0
vips_buffer_undone_zero(S, b) ==
    IF S.aborted THEN S
    ELSE [S EXCEPT !.buffers[b].area.width = 0,
                   !.buffers[b].area.height = 0]

vips_buffer_undone(S, t, b) ==
    vips_buffer_undone_zero(vips_buffer_undone_remove(S, t, b), b)

\* g_assert( buffer->ref_count > 0 )
RefCountAssert_Off(buffer) == TRUE

RefCountAssert(buffer) == buffer.ref_count > 0

\* cache->n_reserve < buffer_cache_max_reserve
ReserveHasRoom_OffByOne(cache) == cache.n_reserve <= buffer_cache_max_reserve

ReserveHasRoom(cache) == cache.n_reserve < buffer_cache_max_reserve

\* vips_buffer_unref(): "Place on this thread's reserve list for reuse", or free
vips_buffer_unref_park(S, b) ==
    IF S.aborted THEN S
    ELSE IF ReserveHasRoom(S.caches[S.cache])
    THEN [S EXCEPT !.caches[S.cache].reserve = g_slist_prepend(@, b),
                   !.caches[S.cache].n_reserve = @ + 1,
                   !.buffers[b].done = FALSE,
                   !.buffers[b].cache = NULL,
                   !.buffers[b].im = NULL,
                   !.buffers[b].area.width = 0,
                   !.buffers[b].area.height = 0,
                   !.unref = "parked"]
    ELSE [vips_buffer_free(S, b) EXCEPT !.unref = "freed"]

\* vips_buffer_unref(): if( buffer->ref_count == 0 ) { ... }
vips_buffer_unref_last(S, t, b) ==
    IF S.buffers[b].ref_count # 0 THEN [S EXCEPT !.unref = "dec"]
    ELSE vips_buffer_unref_park(vips_buffer_undone(buffer_cache_get(S, t), t, b), b)

vips_buffer_unref(S, t, b) ==
    IF S.aborted THEN S
    ELSE IF ~RefCountAssert(S.buffers[b]) THEN Abort(S)
    ELSE vips_buffer_unref_last([S EXCEPT !.buffers[b].ref_count = @ - 1], t, b)

\* reallocates the pixel data on every move
buffer_move_resize_Always(S, b, area, ok) ==
    IF S.aborted THEN S
    ELSE IF S.buffers[b].done THEN Abort(S)
    ELSE [S EXCEPT !.buffers[b].area = area,
                   !.buffers[b].bsize =
                       VIPS_IMAGE_SIZEOF_PEL(S.buffers[b].im) * area.width * area.height,
                   !.buffers[b].buf = ok,
                   !.allocs = @ \cup {"data"},
                   !.rc = IF ok THEN 0 ELSE -1]

\* buffer_move(), after the vips_buffer_undone(); ok: whether
\* vips_tracked_malloc(), if it is called, succeeds
buffer_move_resize(S, b, area, ok) ==
    IF S.aborted THEN S
    ELSE IF S.buffers[b].done THEN Abort(S)
    ELSE IF \/ S.buffers[b].bsize <
                  VIPS_IMAGE_SIZEOF_PEL(S.buffers[b].im) * area.width * area.height
            \/ ~S.buffers[b].buf
    THEN [S EXCEPT !.buffers[b].area = area,
                   !.buffers[b].bsize =
                       VIPS_IMAGE_SIZEOF_PEL(S.buffers[b].im) * area.width * area.height,
                   !.buffers[b].buf = ok,
                   !.allocs = @ \cup {"data"},
                   !.rc = IF ok THEN 0 ELSE -1]
    ELSE [S EXCEPT !.buffers[b].area = area, !.rc = 0]

buffer_move(S, t, b, area, ok) ==
    IF S.aborted THEN S
    ELSE IF S.buffers[b].ref_count # 1 THEN Abort(S)
    ELSE buffer_move_resize(vips_buffer_undone(S, t, b), b, area, ok)

\* puts the buffer back on the reserve instead of freeing it
vips_buffer_new_fail_Parks(S, b) ==
    [S EXCEPT !.caches[S.cache].reserve = g_slist_prepend(@, b),
              !.ret = NULL, !.made = b]

\* vips_buffer_new(): buffer_move() failed
vips_buffer_new_fail(S, b) ==
    [vips_buffer_free(S, b) EXCEPT !.ret = NULL, !.made = b]

vips_buffer_new_result(S, b) ==
    IF S.aborted THEN S
    ELSE IF S.rc # 0 THEN vips_buffer_new_fail(S, b)
    ELSE [S EXCEPT !.ret = b, !.made = b]

\* vips_buffer_new(): the head of the reserve, taken off it
vips_buffer_new_reuse(S, im) ==
    [S EXCEPT !.caches[S.cache].reserve =
                  g_slist_remove(@, Head(S.caches[S.cache].reserve)),
              !.caches[S.cache].n_reserve = @ - 1,
              !.buffers[Head(S.caches[S.cache].reserve)].ref_count = 1,
              !.buffers[Head(S.caches[S.cache].reserve)].im = im,
              !.buffers[Head(S.caches[S.cache].reserve)].done = FALSE,
              !.buffers[Head(S.caches[S.cache].reserve)].cache = NULL]

\* vips_buffer_new(): a new VipsBuffer
vips_buffer_new_alloc(S, t, im) ==
    [S EXCEPT !.buffers = @ @@ (FreshAddr(DOMAIN S.buffers, t) :> NewBuffer(im)),
              !.allocs = @ \cup {"buffer"}]

\* never looks at the reserve
vips_buffer_new_take_NoReuse(S, t, im, area, ok) ==
    vips_buffer_new_result(
        buffer_move(vips_buffer_new_alloc(S, t, im), t,
                    FreshAddr(DOMAIN S.buffers, t), area, ok),
        FreshAddr(DOMAIN S.buffers, t))

vips_buffer_new_take(S, t, im, area, ok) ==
    IF S.caches[S.cache].reserve # <<>>
    THEN vips_buffer_new_result(
             buffer_move(vips_buffer_new_reuse(S, im), t,
                         Head(S.caches[S.cache].reserve), area, ok),
             Head(S.caches[S.cache].reserve))
    ELSE vips_buffer_new_result(
             buffer_move(vips_buffer_new_alloc(S, t, im), t,
                         FreshAddr(DOMAIN S.buffers, t), area, ok),
             FreshAddr(DOMAIN S.buffers, t))

vips_buffer_new(S, t, im, area, ok) ==
    IF S.aborted THEN S
    ELSE vips_buffer_new_take(buffer_cache_get(S, t), t, im, area, ok)

\* the enclosure test buffer_find() does inline
AreaEncloses_OriginOnly(area, r) ==
    /\ area.left <= r.left
    /\ area.top <= r.top

AreaEncloses(area, r) ==
    /\ area.left <= r.left
    /\ area.top <= r.top
    /\ area.left + area.width >= r.left + r.width
    /\ area.top + area.height >= r.top + r.height

\* the last enclosing buffer of the list instead of the first
FirstEnclosing_Last(S, p, r) ==
    IF \E i \in 1..Len(p) : AreaEncloses(S.buffers[p[i]].area, r)
    THEN CHOOSE i \in 1..Len(p) :
             /\ AreaEncloses(S.buffers[p[i]].area, r)
             /\ \A j \in (i + 1)..Len(p) : ~AreaEncloses(S.buffers[p[j]].area, r)
    ELSE 0

\* the position in list p of the first buffer whose area encloses r, or 0
FirstEnclosing(S, p, r) ==
    IF \E i \in 1..Len(p) : AreaEncloses(S.buffers[p[i]].area, r)
    THEN CHOOSE i \in 1..Len(p) :
             /\ AreaEncloses(S.buffers[p[i]].area, r)
             /\ \A j \in 1..(i - 1) : ~AreaEncloses(S.buffers[p[j]].area, r)
    ELSE 0

\* buffer_find(): the scan of the image's list
buffer_find_scan(S, p, i) ==
    IF i = 0 THEN [S EXCEPT !.ret = NULL]
    ELSE [S EXCEPT !.buffers[p[i]].ref_count = @ + 1, !.ret = p[i]]

buffer_find_list(S, im, r) ==
    buffer_find_scan(S, S.caches[S.cache].hash[im],
                     FirstEnclosing(S, S.caches[S.cache].hash[im], r))

buffer_find(S, t, im, r) ==
    IF S.aborted THEN S
    ELSE buffer_find_list(buffer_cache_get(S, t), im, r)

\* a buffer from vips_buffer_new(), or its failure
NewPath(S) == SetPath(S, IF S.ret = NULL THEN "new_fail" ELSE "new")

vips_buffer_ref_miss(S, t, im, area, ok) ==
    IF S.ret # NULL THEN SetPath(S, "found")
    ELSE NewPath(vips_buffer_new(S, t, im, area, ok))

vips_buffer_ref(S, t, im, area, ok) ==
    vips_buffer_ref_miss(buffer_find(S, t, im, area), t, im, area, ok)

\* "Is the current buffer OK?"
OldBufferOK_Never(S, old_buffer, area) == FALSE

OldBufferOK(S, old_buffer, area) ==
    /\ old_buffer # NULL
    /\ vips_rect_includesrect(S.buffers[old_buffer].area, area)

\* VIPS_FREEF( vips_buffer_unref, old_buffer )
UnrefOld_Forgotten(S, t, old_buffer) == S

UnrefOld(S, t, old_buffer) ==
    IF old_buffer # NULL THEN vips_buffer_unref(S, t, old_buffer) ELSE S

\* vips_buffer_unref_ref(): "Does the new area already have a buffer?" - yes
FoundPath(S, b) ==
    IF S.aborted THEN S ELSE [S EXCEPT !.ret = b, !.path = "found"]

\* vips_buffer_unref_ref(): buffer_move() of the old buffer failed
MoveFailPath(S) == SetPath([S EXCEPT !.ret = NULL], "move_fail")

\* vips_buffer_unref_ref(): "Is the current buffer unshared? We can just move it."
MovedPath(S, t, old_buffer) ==
    IF S.aborted THEN S
    ELSE IF S.rc # 0 THEN MoveFailPath(vips_buffer_unref(S, t, old_buffer))
    ELSE [S EXCEPT !.ret = old_buffer, !.path = "moved"]

\* moves the old buffer whoever else holds it
OldUnshared_AnyCount(S, old_buffer) == old_buffer # NULL

\* "Is the current buffer unshared?"
OldUnshared(S, old_buffer) ==
    /\ old_buffer # NULL
    /\ S.buffers[old_buffer].ref_count = 1

vips_buffer_unref_ref_miss(S, t, old_buffer, im, area, ok) ==
    IF S.aborted THEN S
    ELSE IF S.ret # NULL THEN FoundPath(UnrefOld(S, t, old_buffer), S.ret)
    ELSE IF OldUnshared(S, old_buffer)
    THEN MovedPath(buffer_move(S, t, old_buffer, area, ok), t, old_buffer)
    ELSE NewPath(vips_buffer_new(UnrefOld(S, t, old_buffer), t, im, area, ok))

vips_buffer_unref_ref(S, t, old_buffer, im, area, ok) ==
    IF old_buffer # NULL /\ S.buffers[old_buffer].im # im THEN Abort(S)
    ELSE IF S.aborted THEN S
    ELSE IF OldBufferOK(S, old_buffer, area)
    THEN [S EXCEPT !.ret = old_buffer, !.path = "same"]
    ELSE vips_buffer_unref_ref_miss(buffer_find(S, t, im, area),
                                    t, old_buffer, im, area, ok)

vips__buffer_shutdown(S, t) ==
    IF S.tls[t] = NULL THEN S
    ELSE [buffer_cache_free(S, S.tls[t]) EXCEPT !.tls[t] = NULL]

\* ---------------------------------------------------------------- callers
Held(t) == DOMAIN handles[t]

\* the references thread t's callers hold
HandleCount(h, t) ==
    LET RECURSIVE Sum(_)
        Sum(D) == IF D = {} THEN 0
                  ELSE h[t][CHOOSE x \in D : TRUE] + Sum(D \ {CHOOSE x \in D : TRUE})
    IN  Sum(DOMAIN h[t])

TotalHandles(h) ==
    LET RECURSIVE Sum(_)
        Sum(T) == IF T = {} THEN 0
                  ELSE HandleCount(h, CHOOSE x \in T : TRUE)
                           + Sum(T \ {CHOOSE x \in T : TRUE})
    IN  Sum(Threads)

AddHandle(h, t, b) ==
    IF b = NULL THEN h
    ELSE [h EXCEPT ![t] = IF b \in DOMAIN @ THEN [@ EXCEPT ![b] = @ + 1]
                          ELSE @ @@ (b :> 1)]

DropHandle(h, t, b) ==
    IF b = NULL THEN h
    ELSE [h EXCEPT ![t] = IF @[b] > 1 THEN [@ EXCEPT ![b] = @ - 1]
                          ELSE Without(@, b)]

\* a call that creates a VipsBuffer object needs room under MaxBuffers
RoomFor(S) == "buffer" \in S.allocs => Cardinality(DOMAIN buffers) < MaxBuffers

NoRect == MkRect(0, 0, 0, 0)

Call(op, t, im, area, old, S) ==
    [op |-> op, t |-> t, im |-> im, area |-> area, old |-> old,
     was_done |-> old # NULL /\ buffers[old].done,
     ret |-> S.ret, path |-> S.path, unref |-> S.unref, made |-> S.made,
     allocs |-> S.allocs]

\* the heap S a call has left, and the references h its caller now holds
Commit(S, call, h) ==
    /\ buffers' = S.buffers
    /\ caches' = S.caches
    /\ tls' = S.tls
    /\ aborted' = S.aborted
    /\ last' = call
    /\ handles' = IF S.aborted THEN handles ELSE h

\* a call that takes the reference old (or NULL) and returns a reference (or
\* NULL): old is consumed unless the call hands old itself back
Returned(op, t, im, area, old, S) ==
    /\ RoomFor(S)
    /\ Commit(S, Call(op, t, im, area, old, S),
              IF S.ret = old THEN handles
              ELSE AddHandle(DropHandle(handles, t, old), t, S.ret))

\* acquire: vips_buffer_ref( im, area ) on thread t
Ref(t, im, area, ok) ==
    /\ ~aborted
    /\ Returned("ref", t, im, area, NULL, vips_buffer_ref(Heap, t, im, area, ok))

\* swapReference: vips_buffer_unref_ref( old, im, area ) on thread t, old
\* being NULL or a reference to a buffer of im that the thread holds (the
\* assertion on old_buffer->im is the callers' contract)
UnrefRef(t, old, im, area, ok) ==
    /\ ~aborted
    /\ old \in Held(t) \cup {NULL}
    /\ old # NULL => buffers[old].im = im
    /\ Returned("unref_ref", t, im, area, old,
                vips_buffer_unref_ref(Heap, t, old, im, area, ok))

\* publish: vips_buffer_done( buffer )
Done(t, b) ==
    /\ ~aborted
    /\ b \in Held(t)
    /\ Commit(vips_buffer_done(Heap, t, b),
              Call("done", t, NULL, NoRect, b, vips_buffer_done(Heap, t, b)),
              handles)

\* unpublish: vips_buffer_undone( buffer )
Undone(t, b) ==
    /\ ~aborted
    /\ b \in Held(t)
    /\ Commit(vips_buffer_undone(Heap, t, b),
              Call("undone", t, NULL, NoRect, b, vips_buffer_undone(Heap, t, b)),
              handles)

\* the heap S a vips_buffer_unref( b ) has left
Released(t, b, S, h) == Commit(S, Call("unref", t, NULL, NoRect, b, S), h)

\* release: vips_buffer_unref( buffer ) of a reference the thread holds
Unref(t, b) ==
    /\ ~aborted
    /\ b \in Held(t)
    /\ Released(t, b, vips_buffer_unref(Heap, t, b), DropHandle(handles, t, b))

\* release through a stale pointer: the buffer already sits in the reserve
UnrefStale(t, b) ==
    /\ ~aborted
    /\ tls[t] # NULL
    /\ g_slist_find(caches[tls[t]].reserve, b)
    /\ Released(t, b, vips_buffer_unref(Heap, t, b), handles)

\* threadShutdown: vips__buffer_shutdown() on thread t
Shutdown(t) ==
    /\ ~aborted
    /\ Commit(vips__buffer_shutdown(Heap, t),
              Call("shutdown", t, NULL, NoRect, NULL, vips__buffer_shutdown(Heap, t)),
              handles)

\* The state after vips__buffer_init(): no thread has a cache yet.
Init ==
    /\ buffers = <<>>
    /\ caches = <<>>
    /\ tls = [t \in Threads |-> NULL]
    /\ handles = [t \in Threads |-> <<>>]
    /\ aborted = FALSE
    /\ last = Call("init", NULL, NULL, NoRect, NULL, Heap)

\* The calls of the threads in T on the images Is and the rectangles Rs,
\* their callers holding at most H references together.
NextOn(T, H, Is, Rs) ==
    \/ \E t \in T, im \in Is, area \in Rs, ok \in BOOLEAN :
           TotalHandles(handles) < H /\ Ref(t, im, area, ok)
    \/ \E t \in T, old \in (DOMAIN buffers) \cup {NULL}, im \in Is,
          area \in Rs, ok \in BOOLEAN :
           /\ old = NULL => TotalHandles(handles) < H
           /\ UnrefRef(t, old, im, area, ok)
    \/ \E t \in T, b \in DOMAIN buffers : Done(t, b)
    \/ \E t \in T, b \in DOMAIN buffers : Undone(t, b)
    \/ \E t \in T, b \in DOMAIN buffers : Unref(t, b)
    \/ \E t \in T, b \in DOMAIN buffers : UnrefStale(t, b)
    \/ \E t \in T : Shutdown(t)

\* One worker thread.
Next == NextOn({1}, MaxHandles, Images, Rects)

Spec == Init /\ [][Next]_vars

\* Every worker thread, in any interleaving, all working on image 1.
NextThreads == NextOn(Threads, MaxSharedHandles, {1}, Rects)

SpecThreads == Init /\ [][NextThreads]_vars

\* The state thread 1 is in after buffer_cache_max_reserve + 1 calls of
\* vips_buffer_ref( 1, {0,0,1,1} ), none of them published, and the release
\* of all but two of the references: the reserve is one short of full.
ReserveRect == MkRect(0, 0, 1, 1)

ReserveAddr(k) == 1 + NumThreads * k

InitReserve ==
    LET parked == [i \in 1..(buffer_cache_max_reserve - 1) |-> ReserveAddr(i - 1)]
        held == {ReserveAddr(buffer_cache_max_reserve - 1),
                 ReserveAddr(buffer_cache_max_reserve)}
        Parked == [ref_count |-> 0, im |-> NULL, done |-> FALSE, cache |-> NULL,
                   area |-> MkRect(ReserveRect.left, ReserveRect.top, 0, 0),
                   buf |-> TRUE,
                   bsize |-> ReserveRect.width * ReserveRect.height]
        Referenced == [ref_count |-> 1, im |-> 1, done |-> FALSE, cache |-> NULL,
                       area |-> ReserveRect, buf |-> TRUE,
                       bsize |-> ReserveRect.width * ReserveRect.height]
    IN  /\ buffers = [b \in {parked[i] : i \in DOMAIN parked} \cup held |->
                          IF b \in held THEN Referenced ELSE Parked]
        /\ caches = (1 :> [buffer_cache_new(1) EXCEPT
                               !.reserve = parked,
                               !.n_reserve = buffer_cache_max_reserve - 1])
        /\ tls = [t \in Threads |-> IF t = 1 THEN 1 ELSE NULL]
        /\ handles = [t \in Threads |->
                          IF t = 1 THEN [b \in held |-> 1] ELSE <<>>]
        /\ aborted = FALSE
        /\ last = Call("init", NULL, NULL, NoRect, NULL, Heap)

NextReserve == NextOn({1}, MaxSharedHandles, {1}, {ReserveRect})

SpecReserve == InitReserve /\ [][NextReserve]_vars

\* One thread working through a sequence of distinct, mutually non-enclosing
\* rectangles of image 1, one column each and one or two rows high, starting
\* from an empty cache: vips_buffer_ref() of the next rectangle, then
\* vips_buffer_unref() of the buffer it returned.  A failed acquire ends the
\* sequence.  How far the sequence has come is read off the last call: the
\* column of the rectangle acquired or, after a release, the column the
\* released buffer's area still names (vips_buffer_undone() zeroes only
\* width and height).
NumSeqRects == buffer_cache_max_reserve + 1

SeqDone ==
    IF last.op = "ref" THEN last.area.left
    ELSE IF last.op = "unref" /\ last.old \in DOMAIN buffers
    THEN buffers[last.old].area.left
    ELSE 0

SeqAcquire ==
    /\ last.op \in {"init", "unref"}
    /\ SeqDone < NumSeqRects
    /\ \E h \in 1..2, ok \in BOOLEAN : Ref(1, 1, MkRect(SeqDone + 1, 0, 1, h), ok)

SeqRelease ==
    /\ last.op = "ref"
    /\ last.ret # NULL
    /\ Unref(1, last.ret)

NextSequence == SeqAcquire \/ SeqRelease

SpecSequence == Init /\ [][NextSequence]_vars

\* ------------------------------------------------------------------ claims
\* every pixel of rectangle r lies within rectangle a
Inside(r, a) ==
    /\ \A x \in r.left..(r.left + r.width - 1) :
           a.left <= x /\ x < a.left + a.width
    /\ \A y \in r.top..(r.top + r.height - 1) :
           a.top <= y /\ y < a.top + a.height

\* the buffers thread t has published for image im, most recent first, in
\* the heap with caches cs and thread-private slots tl
PublishedIn(cs, tl, t, im) == IF tl[t] = NULL THEN <<>> ELSE cs[tl[t]].hash[im]

ReserveIn(cs, tl, t) == IF tl[t] = NULL THEN <<>> ELSE cs[tl[t]].reserve

PublishedOn(t, im) == PublishedIn(caches, tls, t, im)

ReserveOf(t) == ReserveIn(caches, tls, t)

\* the published buffers of im on thread t whose area encloses r
Enclosers(t, im, r) ==
    {b \in Members(PublishedOn(t, im)) : Inside(r, buffers[b].area)}

\* buffer b is on some published list or in some reserve of caches cs
Listed(cs, b) ==
    \E c \in DOMAIN cs :
        \/ b \in Members(cs[c].reserve)
        \/ \E im \in Images : b \in Members(cs[c].hash[im])

\* C1: a successful acquire (vips_buffer_ref) returns a live buffer whose area
\* encloses the rectangle asked for: either a buffer that was published for
\* that image on the calling thread, its area untouched, or a buffer from the
\* thread's reserve or a new one, its area set to the rectangle.
C1_AcquireEncloses ==
    [][LET c == last'
           b == c.ret
       IN  (c.op = "ref" /\ b # NULL) =>
               /\ b \in DOMAIN buffers'
               /\ Inside(c.area, buffers'[b].area)
               /\ \/ /\ b \in Members(PublishedOn(c.t, c.im))
                     /\ buffers'[b].area = buffers[b].area
                  \/ /\ b \notin DOMAIN buffers \/ b \in Members(ReserveOf(c.t))
                     /\ buffers'[b].area = c.area]_vars

\* C1 witness: an acquire has just returned a published buffer whose area is
\* larger than the rectangle asked for.
C1_Witness ==
    /\ last.op = "ref"
    /\ last.ret \in DOMAIN buffers
    /\ buffers[last.ret].done
    /\ buffers[last.ret].area # last.area
    /\ Inside(last.area, buffers[last.ret].area)

\* C2: no buffer's ref_count is ever negative, and a release of a buffer whose
\* ref_count is 0 fails the assertion and decrements nothing.
C2_RefCountNeverNegative ==
    /\ [](\A b \in DOMAIN buffers : buffers[b].ref_count >= 0)
    /\ [][LET c == last'
          IN  (c.op = "unref" /\ buffers[c.old].ref_count = 0) =>
                  /\ aborted'
                  /\ buffers' = buffers
                  /\ caches' = caches]_vars

\* C2 witness: a release of a parked buffer (ref_count 0) has been rejected.
C2_Witness ==
    /\ aborted
    /\ last.op = "unref"
    /\ buffers[last.old].ref_count = 0
    /\ last.old \in Members(ReserveOf(last.t))

\* C3: a thread's reserve never holds more than buffer_cache_max_reserve
\* buffers, and a call that drops a buffer's last reference while the calling
\* thread's reserve is full frees the buffer and leaves the reserve alone.
C3_ReserveBounded ==
    /\ [](\A c \in DOMAIN caches :
              /\ Len(caches[c].reserve) <= buffer_cache_max_reserve
              /\ caches[c].n_reserve <= buffer_cache_max_reserve)
    /\ [][\A b \in DOMAIN buffers :
              (/\ last'.op \in {"unref", "unref_ref"}
               /\ buffers[b].ref_count = 1
               /\ b \notin DOMAIN buffers' \/ buffers'[b].ref_count = 0
               /\ Len(ReserveOf(last'.t)) = buffer_cache_max_reserve) =>
                  /\ b \notin DOMAIN buffers'
                  /\ caches'[tls[last'.t]].reserve = caches[tls[last'.t]].reserve
                  /\ caches'[tls[last'.t]].n_reserve = buffer_cache_max_reserve]_vars

\* C3 witness: a release has just freed a buffer because the reserve is full.
C3_Witness ==
    /\ last.op = "unref"
    /\ last.unref = "freed"
    /\ last.old \notin DOMAIN buffers
    /\ Len(ReserveOf(last.t)) = buffer_cache_max_reserve

\* C4 (as stated): an acquire of a rectangle enclosed by a published buffer b
\* of the image returns that very b, whatever else is published.
C4_Original ==
    [][\A b \in DOMAIN buffers :
           (/\ last'.op = "ref"
            /\ b \in Enclosers(last'.t, last'.im, last'.area)) =>
               /\ last'.ret = b
               /\ buffers'[b].ref_count = buffers[b].ref_count + 1
               /\ last'.allocs = {}]_vars

\* C4 (amended): an acquire of a rectangle enclosed by some published buffer
\* of the image on the calling thread returns the most recently published of
\* the enclosing buffers (b itself when b is the only one), its ref_count
\* incremented by one, every other buffer untouched, and allocates nothing.
C4_AcquirePublished ==
    [][LET c == last'
           p == PublishedOn(c.t, c.im)
       IN  (c.op = "ref" /\ Enclosers(c.t, c.im, c.area) # {}) =>
               /\ c.ret \in Enclosers(c.t, c.im, c.area)
               /\ \E i \in 1..Len(p) :
                      /\ p[i] = c.ret
                      /\ \A j \in 1..(i - 1) : p[j] \notin Enclosers(c.t, c.im, c.area)
               /\ buffers' = [buffers EXCEPT ![c.ret].ref_count = @ + 1]
               /\ caches' = caches
               /\ c.allocs = {}]_vars

\* C4 witness: an acquire has just returned one of two published buffers that
\* both enclose the rectangle.
C4_Witness ==
    /\ last.op = "ref"
    /\ last.allocs = {}
    /\ last.ret \in Enclosers(last.t, last.im, last.area)
    /\ Cardinality(Enclosers(last.t, last.im, last.area)) = 2

\* C5: a swapReference whose old buffer already encloses the rectangle
\* returns old and changes nothing: no allocation, no buffer, list, reserve
\* or cache touched.
C5_SwapSameBuffer ==
    [][LET c == last'
       IN  (/\ c.op = "unref_ref"
            /\ c.old # NULL
            /\ Inside(c.area, buffers[c.old].area)) =>
               /\ c.ret = c.old
               /\ c.allocs = {}
               /\ buffers' = buffers
               /\ caches' = caches
               /\ tls' = tls
               /\ handles' = handles]_vars

\* C5 witness: a swapReference has just handed back its old buffer, published
\* and shared, whose area is larger than the rectangle asked for.
C5_Witness ==
    /\ last.op = "unref_ref"
    /\ last.old # NULL
    /\ last.ret = last.old
    /\ buffers[last.old].area # last.area
    /\ Inside(last.area, buffers[last.old].area)
    /\ buffers[last.old].done
    /\ buffers[last.old].ref_count = 2

\* C6: when vips_buffer_new fails inside an acquire or a swapReference, the
\* call returns NULL after a failed allocation of pixel data, the buffer it
\* worked on is freed and sits in no reserve and on no published list, and
\* every cache's n_reserve equals the length of its reserve.
C6_NewFailureFrees ==
    [][LET c == last'
       IN  (c.op \in {"ref", "unref_ref"} /\ c.path = "new_fail") =>
               /\ c.ret = NULL
               /\ "data" \in c.allocs
               /\ c.made # NULL
               /\ c.made \notin DOMAIN buffers'
               /\ ~Listed(caches', c.made)
               /\ \A k \in DOMAIN caches' :
                      caches'[k].n_reserve = Len(caches'[k].reserve)]_vars

\* C6 witness: an acquire has just failed on a buffer it had lifted from the
\* reserve, and the buffer is gone.
C6_Witness ==
    /\ last.op = "ref"
    /\ last.path = "new_fail"
    /\ last.ret = NULL
    /\ "buffer" \notin last.allocs
    /\ last.made \notin DOMAIN buffers
    /\ ~Listed(caches, last.made)

\* C7 (as stated): when the in-place resize of an exclusively held old buffer
\* fails, swapReference returns NULL and old is freed: it is in no reserve
\* and on no published list.
C7_Original ==
    [][LET c == last'
       IN  (/\ c.op = "unref_ref"
            /\ c.old # NULL
            /\ ~Inside(c.area, buffers[c.old].area)
            /\ Enclosers(c.t, c.im, c.area) = {}
            /\ buffers[c.old].ref_count = 1
            /\ c.ret = NULL) =>
               /\ c.old \notin DOMAIN buffers'
               /\ ~Listed(caches', c.old)]_vars

\* C8: a call on thread t returns only a buffer new to the heap or one of
\* t's own cache (published there or parked in its reserve), never a buffer
\* another thread holds; so no buffer is ever held by two threads.
C8_NoCrossThreadAliasing ==
    /\ [](\A t1 \in Threads : \A t2 \in Threads \ {t1} :
              Held(t1) \cap Held(t2) = {})
    /\ [][LET c == last'
          IN  (c.op \in {"ref", "unref_ref"} /\ c.ret # NULL /\ c.ret # c.old) =>
                  /\ \/ c.ret \notin DOMAIN buffers
                     \/ c.ret \in Members(PublishedOn(c.t, c.im))
                     \/ c.ret \in Members(ReserveOf(c.t))
                  /\ \A t2 \in Threads \ {c.t} :
                         /\ c.ret \notin Held(t2)
                         /\ \A im \in Images :
                                c.ret \notin Members(PublishedOn(t2, im))]_vars

\* C8 witness: thread 1 holds a published buffer enclosing the rectangle
\* thread 2 has just acquired for the same image, and thread 2 was given a
\* different buffer.
C8_Witness ==
    /\ last.op = "ref"
    /\ last.t = 2
    /\ last.ret # NULL
    /\ last.ret \in Held(2)
    /\ \E b \in Enclosers(1, last.im, last.area) :
           /\ b \in Held(1)
           /\ b # last.ret

\* C9: a swapReference whose old buffer is absent or does not enclose the
\* rectangle, while a published buffer of the image on the calling thread
\* does, returns such a published enclosing buffer f with f's ref_count
\* incremented by one, allocates nothing, and releases old once: old's
\* ref_count drops by one and, if that makes it 0, old is off its published
\* list and either parked at the head of the reserve or freed.
C9_SwapFound ==
    [][LET c == last'
       IN  (/\ c.op = "unref_ref"
            /\ c.old = NULL \/ ~Inside(c.area, buffers[c.old].area)
            /\ Enclosers(c.t, c.im, c.area) # {}) =>
               /\ c.ret \in Enclosers(c.t, c.im, c.area)
               /\ c.ret # c.old
               /\ buffers'[c.ret] = [buffers[c.ret] EXCEPT !.ref_count = @ + 1]
               /\ c.allocs = {}
               /\ \A x \in DOMAIN buffers \ {c.ret, c.old} :
                      x \in DOMAIN buffers' /\ buffers'[x] = buffers[x]
               /\ c.old # NULL =>
                      IF buffers[c.old].ref_count > 1
                      THEN /\ buffers'[c.old] =
                                  [buffers[c.old] EXCEPT !.ref_count = @ - 1]
                           /\ caches' = caches
                      ELSE /\ c.old \notin Members(PublishedIn(caches', tls', c.t, c.im))
                           /\ \/ /\ c.old \in DOMAIN buffers'
                                 /\ buffers'[c.old].ref_count = 0
                                 /\ ~buffers'[c.old].done
                                 /\ ReserveIn(caches', tls', c.t) =
                                        <<c.old>> \o ReserveOf(c.t)
                              \/ /\ c.old \notin DOMAIN buffers'
                                 /\ ReserveIn(caches', tls', c.t) = ReserveOf(c.t)
                                 /\ Len(ReserveOf(c.t)) = buffer_cache_max_reserve]_vars

\* C9 witness: a swapReference has just returned a published buffer found by
\* the search, and its old buffer, published and on its last reference, is
\* now parked in the reserve.
C9_Witness ==
    /\ last.op = "unref_ref"
    /\ last.path = "found"
    /\ last.old # NULL
    /\ last.was_done
    /\ last.ret # last.old
    /\ buffers[last.ret].ref_count = 2
    /\ last.old \in Members(ReserveOf(last.t))
    /\ last.old \notin Members(PublishedOn(last.t, last.im))

\* C10 (as stated): a swapReference whose old buffer does not enclose the
\* rectangle, with no published buffer enclosing it and old on one
\* reference, returns old retargeted in place and leaves the reserve alone.
C10_Original ==
    [][LET c == last'
       IN  (/\ c.op = "unref_ref"
            /\ c.old # NULL
            /\ ~Inside(c.area, buffers[c.old].area)
            /\ Enclosers(c.t, c.im, c.area) = {}
            /\ buffers[c.old].ref_count = 1) =>
               /\ c.ret = c.old
               /\ buffers'[c.old].area = c.area
               /\ buffers'[c.old].ref_count = 1
               /\ ~buffers'[c.old].done
               /\ c.old \notin Members(PublishedIn(caches', tls', c.t, c.im))
               /\ ReserveIn(caches', tls', c.t) = ReserveOf(c.t)]_vars

\* C10 (amended): such a swapReference fails, returning NULL, only when the
\* move needed new pixel data and that allocation failed; otherwise it
\* returns old retargeted in place: area equal to the rectangle, ref_count
\* still 1, unpublished and off the image's list, no VipsBuffer created and
\* the reserve as it was.
C10_SwapMovesInPlace ==
    [][LET c == last'
       IN  (/\ c.op = "unref_ref"
            /\ c.old # NULL
            /\ ~Inside(c.area, buffers[c.old].area)
            /\ Enclosers(c.t, c.im, c.area) = {}
            /\ buffers[c.old].ref_count = 1) =>
               \/ /\ c.ret = NULL
                  /\ "data" \in c.allocs
                  /\ \/ ~buffers[c.old].buf
                     \/ buffers[c.old].bsize <
                            VIPS_IMAGE_SIZEOF_PEL(c.im) * c.area.width * c.area.height
               \/ /\ c.ret = c.old
                  /\ buffers'[c.old].area = c.area
                  /\ buffers'[c.old].ref_count = 1
                  /\ ~buffers'[c.old].done
                  /\ buffers'[c.old].buf
                  /\ c.old \notin Members(PublishedIn(caches', tls', c.t, c.im))
                  /\ "buffer" \notin c.allocs
                  /\ ReserveIn(caches', tls', c.t) = ReserveOf(c.t)]_vars

\* C10 witness: a swapReference has just retargeted in place an old buffer
\* that was published when the call was made.
C10_Witness ==
    /\ last.op = "unref_ref"
    /\ last.path = "moved"
    /\ last.was_done
    /\ last.ret = last.old
    /\ buffers[last.old].area = last.area
    /\ buffers[last.old].ref_count = 1
    /\ ~buffers[last.old].done
    /\ last.old \notin Members(PublishedOn(last.t, last.im))

\* the bytes a buffer of image im needs to hold rectangle r
BytesFor(im, r) == VIPS_IMAGE_SIZEOF_PEL(im) * r.width * r.height

\* C11 (as stated): an acquire that finds no published enclosing buffer while
\* the reserve's head b holds pixel data returns b, retargeted to the image
\* and rectangle, without allocating when b's capacity suffices and with
\* data of exactly the required size when it does not.
C11_Original ==
    [][LET c == last'
           b == Head(ReserveOf(c.t))
       IN  (/\ c.op = "ref"
            /\ Enclosers(c.t, c.im, c.area) = {}
            /\ ReserveOf(c.t) # <<>>
            /\ buffers[b].buf) =>
               /\ c.ret = b
               /\ buffers'[b].im = c.im
               /\ buffers'[b].area = c.area
               /\ buffers'[b].buf
               /\ IF BytesFor(c.im, c.area) <= buffers[b].bsize
                  THEN c.allocs = {} /\ buffers'[b].bsize = buffers[b].bsize
                  ELSE c.allocs = {"data"}
                       /\ buffers'[b].bsize = BytesFor(c.im, c.area)]_vars

\* C11 (amended): such an acquire takes b, the most recently parked buffer,
\* off the reserve.  When b's capacity suffices it returns b retargeted to
\* the image and rectangle on one reference, data and capacity kept, nothing
\* allocated.  When it does not, the data is reallocated at exactly the
\* required size and b is returned likewise, unless that allocation fails:
\* then the acquire returns NULL and b is freed.
C11_ReserveRoundTrip ==
    [][LET c == last'
           b == Head(ReserveOf(c.t))
       IN  (/\ c.op = "ref"
            /\ Enclosers(c.t, c.im, c.area) = {}
            /\ ReserveOf(c.t) # <<>>
            /\ buffers[b].buf) =>
               /\ ReserveIn(caches', tls', c.t) = Tail(ReserveOf(c.t))
               /\ "buffer" \notin c.allocs
               /\ \/ /\ c.ret = b
                     /\ buffers'[b].im = c.im
                     /\ buffers'[b].area = c.area
                     /\ buffers'[b].ref_count = 1
                     /\ ~buffers'[b].done
                     /\ buffers'[b].buf
                     /\ IF BytesFor(c.im, c.area) <= buffers[b].bsize
                        THEN c.allocs = {} /\ buffers'[b].bsize = buffers[b].bsize
                        ELSE c.allocs = {"data"}
                             /\ buffers'[b].bsize = BytesFor(c.im, c.area)
                  \/ /\ c.ret = NULL
                     /\ BytesFor(c.im, c.area) > buffers[b].bsize
                     /\ c.allocs = {"data"}
                     /\ b \notin DOMAIN buffers'
                     /\ ~Listed(caches', b)]_vars

\* C11 witness: an acquire has just returned a buffer lifted from the
\* reserve, with no allocation, for a rectangle smaller than its capacity.
C11_Witness ==
    /\ last.op = "ref"
    /\ last.path = "new"
    /\ last.allocs = {}
    /\ last.ret = last.made
    /\ buffers[last.ret].im = last.im
    /\ buffers[last.ret].area = last.area
    /\ buffers[last.ret].buf
    /\ buffers[last.ret].bsize > BytesFor(last.im, last.area)

\* the buffers on the published lists of cache k
PublishedBy(k) == UNION {Members(caches[k].hash[im]) : im \in Images}

\* C12: vips__buffer_shutdown on a thread that has a cache frees every buffer
\* of that cache's reserve, frees the cache with its lists, leaves every
\* buffer that was on one of those lists alive and not done with its other
\* fields as they were, and clears the thread's slot; every other buffer,
\* every other cache and every other thread's slot is unchanged.  On a
\* thread without a cache it changes nothing.  The first call on a thread
\* whose slot is clear works on a new cache that holds nothing but what
\* that call put there.
C12_Shutdown ==
    /\ [][LET c == last'
              k == tls[c.t]
          IN  (c.op = "shutdown" /\ k # NULL) =>
                  /\ DOMAIN buffers' = (DOMAIN buffers) \ Members(caches[k].reserve)
                  /\ \A b \in DOMAIN buffers' :
                         IF b \in PublishedBy(k)
                         THEN /\ ~buffers'[b].done
                              /\ [buffers'[b] EXCEPT !.done = TRUE, !.cache = k] =
                                     buffers[b]
                         ELSE buffers'[b] = buffers[b]
                  /\ caches' = Without(caches, k)
                  /\ tls' = [tls EXCEPT ![c.t] = NULL]
                  /\ handles' = handles
                  /\ ~aborted']_vars
    /\ [][(last'.op = "shutdown" /\ tls[last'.t] = NULL) =>
              /\ buffers' = buffers
              /\ caches' = caches
              /\ tls' = tls]_vars
    /\ [][LET c == last'
              k == tls'[c.t]
          IN  (c.op \notin {"init", "shutdown"} /\ tls[c.t] = NULL /\ k # NULL) =>
                  /\ k \notin DOMAIN caches
                  /\ caches'[k].thread = c.t
                  /\ Members(caches'[k].reserve) \subseteq {c.old}
                  /\ caches'[k].n_reserve = Len(caches'[k].reserve)
                  /\ \A im \in Images :
                         /\ Len(caches'[k].hash[im]) <= 1
                         /\ Members(caches'[k].hash[im]) \subseteq {c.old}
                  /\ \A j \in DOMAIN caches : caches'[j] = caches[j]]_vars

\* C12 witness: thread 1 has just shut down while it held a buffer it had
\* published, and thread 2 still has its cache with a published buffer.
C12_Witness ==
    /\ last.op = "shutdown"
    /\ last.t = 1
    /\ tls[1] = NULL
    /\ tls[2] # NULL
    /\ \E b \in Held(1) : ~buffers[b].done /\ buffers[b].cache = Dangling
    /\ \E b \in Held(2) : buffers[b].done /\ buffers[b].cache = tls[2]

\* rectangles r1 and r2 have no pixel in common
Disjoint(r1, r2) ==
    \/ r1.left + r1.width <= r2.left
    \/ r2.left + r2.width <= r1.left
    \/ r1.top + r1.height <= r2.top
    \/ r2.top + r2.height <= r1.top

\* two successful acquires in a row on one thread for one image and
\* disjoint rectangles
TwoAcquires ==
    /\ last.op = "ref" /\ last'.op = "ref"
    /\ last.t = last'.t
    /\ last.im = last'.im
    /\ last.ret # NULL /\ last'.ret # NULL
    /\ Disjoint(last.area, last'.area)

\* C13 (as stated): two acquires in a row on one thread for one image and
\* disjoint rectangles, both references still held, never return the same
\* buffer.
C13_Original ==
    [][TwoAcquires => last'.ret # last.ret]_vars

\* C13 (amended): an acquire returns a buffer that is already referenced
\* only if that buffer is published for the image on the calling thread and
\* its area, which the call leaves alone, encloses the rectangle; so two
\* acquires in a row for disjoint rectangles return the same buffer exactly
\* when the first one's buffer is published, encloses both rectangles and
\* is the first such buffer on the list, and two different buffers
\* otherwise.
C13_DisjointAcquires ==
    /\ [][LET c == last'
          IN  (/\ c.op = "ref"
               /\ c.ret \in DOMAIN buffers
               /\ buffers[c.ret].ref_count >= 1) =>
                  /\ c.ret \in Enclosers(c.t, c.im, c.area)
                  /\ buffers'[c.ret].area = buffers[c.ret].area]_vars
    /\ [][TwoAcquires =>
              (last'.ret = last.ret <=>
                   /\ last.ret \in Enclosers(last.t, last.im, last.area)
                   /\ last.ret \in Enclosers(last.t, last.im, last'.area)
                   /\ \A i \in 1..Len(PublishedOn(last.t, last.im)) :
                          PublishedOn(last.t, last.im)[i] \in
                              Enclosers(last.t, last.im, last'.area)
                          => \E j \in 1..i :
                                 PublishedOn(last.t, last.im)[j] = last.ret)]_vars

\* C13 witness: the thread holds a published buffer for one tile and has
\* just acquired a disjoint tile of the same image, getting another buffer.
C13_Witness ==
    /\ last.op = "ref"
    /\ last.ret \in Held(last.t)
    /\ \E b \in Held(last.t) \ {last.ret} :
           /\ buffers[b].im = last.im
           /\ buffers[b].done
           /\ buffers[b].area.width > 0
           /\ Disjoint(buffers[b].area, last.area)
           /\ Disjoint(buffers[b].area, buffers[last.ret].area)

\* every rectangle of the sequence has been acquired and released
SeqCompleted == last.op = "unref" /\ SeqDone = NumSeqRects

\* C14 (as stated): when the sequence of buffer_cache_max_reserve + 1
\* acquire-then-release pairs is complete, the reserve holds
\* buffer_cache_max_reserve buffers.
C14_Original ==
    SeqCompleted => Len(ReserveOf(1)) = buffer_cache_max_reserve

\* C14 (amended): throughout the sequence at most one buffer exists, the
\* reserve never holds more than one and no release frees a buffer; when
\* the sequence is complete the reserve holds exactly one buffer, the one
\* every acquire returned, and it is the only buffer there is.
C14_SequenceReusesOneBuffer ==
    /\ Cardinality(DOMAIN buffers) <= 1
    /\ Len(ReserveOf(1)) <= 1
    /\ last.unref # "freed"
    /\ SeqCompleted =>
           /\ ReserveOf(1) = <<last.old>>
           /\ caches[tls[1]].n_reserve = 1
           /\ DOMAIN buffers = {last.old}
           /\ buffers[last.old].ref_count = 0

\* C14 witness: the sequence is complete and the reserve holds one buffer.
C14_Witness ==
    /\ SeqCompleted
    /\ SeqDone = buffer_cache_max_reserve + 1
    /\ Len(ReserveOf(1)) = 1

\* where buffer b occurs on published lists: <<cache, image, position>>
Occurrences(b) ==
    {o \in (DOMAIN caches) \X Images \X (1..MaxBuffers) :
         /\ o[3] <= Len(caches[o[1]].hash[o[2]])
         /\ caches[o[1]].hash[o[2]][o[3]] = b}

\* C15: a live buffer is on a published list exactly when its done flag is
\* set; it is on at most one list and there once; that list is the one
\* under the buffer's own image in the cache the buffer's cache field names,
\* which is the current cache of the thread whose callers hold the buffer;
\* a buffer that is done has ref_count >= 1; and no list is longer than the
\* number of live buffers or names a buffer that is not live.
C15_PublishedIffListed ==
    /\ \A b \in DOMAIN buffers :
           /\ buffers[b].done <=> Occurrences(b) # {}
           /\ Cardinality(Occurrences(b)) <= 1
           /\ \A o \in Occurrences(b) :
                  /\ o[1] = buffers[b].cache
                  /\ o[2] = buffers[b].im
                  /\ tls[caches[o[1]].thread] = o[1]
                  /\ b \in Held(caches[o[1]].thread)
           /\ buffers[b].done => buffers[b].ref_count >= 1
    /\ \A k \in DOMAIN caches : \A im \in Images :
           /\ Len(caches[k].hash[im]) <= MaxBuffers
           /\ Members(caches[k].hash[im]) \subseteq DOMAIN buffers

\* C15 witness: a publish has just put a second buffer on a list, the two
\* published buffers being of different images, each on its own image's list.
C15_Witness ==
    /\ last.op = "done"
    /\ \E b1 \in DOMAIN buffers : \E b2 \in (DOMAIN buffers) \ {b1} :
           /\ buffers[b1].done /\ buffers[b2].done
           /\ buffers[b1].im # buffers[b2].im
           /\ PublishedOn(last.t, buffers[b1].im) = <<b1>>
           /\ PublishedOn(last.t, buffers[b2].im) = <<b2>>

\* C16 (as stated): a live buffer that is not done has no cache pointer, and
\* a cache pointer that is set names a cache that exists.
C16_Original ==
    \A b \in DOMAIN buffers :
        /\ ~buffers[b].done => buffers[b].cache = NULL
        /\ buffers[b].cache # NULL => buffers[b].cache \in DOMAIN caches

\* where buffer b occurs in reserves: <<cache, position>>
ReserveSlots(b) ==
    {o \in (DOMAIN caches) \X (1..buffer_cache_max_reserve) :
         /\ o[2] <= Len(caches[o[1]].reserve)
         /\ caches[o[1]].reserve[o[2]] = b}

Referenced(b) ==
    /\ buffers[b].ref_count >= 1
    /\ ReserveSlots(b) = {}

Parked(b) ==
    /\ buffers[b].ref_count = 0
    /\ Cardinality(ReserveSlots(b)) = 1
    /\ buffers[b].im = NULL
    /\ ~buffers[b].done
    /\ Occurrences(b) = {}
    /\ buffers[b].area.width = 0
    /\ buffers[b].area.height = 0

\* C17: every live buffer is either referenced (ref_count >= 1, in no
\* reserve) or parked (ref_count 0, in one reserve once, no image, not done,
\* on no list, area width and height 0), never both; and a freed buffer is
\* out of reach of a second free: no reserve and no published list names
\* it and no caller holds a reference to it.
C17_ReferencedParkedOrFreed ==
    /\ \A b \in DOMAIN buffers : Referenced(b) \/ Parked(b)
    /\ \A k \in DOMAIN caches :
           /\ Members(caches[k].reserve) \subseteq DOMAIN buffers
           /\ Len(caches[k].reserve) <= buffer_cache_max_reserve
           /\ \A im \in Images : Members(caches[k].hash[im]) \subseteq DOMAIN buffers
    /\ \A t \in Threads : Held(t) \subseteq DOMAIN buffers

\* C17 witness: an acquire has just freed the buffer it had lifted from the
\* reserve, while another buffer is parked there and every live buffer is
\* parked or referenced.
C17_Witness ==
    /\ last.op = "ref"
    /\ last.path = "new_fail"
    /\ "buffer" \notin last.allocs
    /\ last.made \notin DOMAIN buffers
    /\ \E b \in DOMAIN buffers : Parked(b)

\* the references to buffer b that callers hold, over all threads
RefsHeld(b) ==
    LET RECURSIVE Sum(_)
        Sum(T) == IF T = {} THEN 0
                  ELSE (IF b \in Held(CHOOSE x \in T : TRUE)
                        THEN handles[CHOOSE x \in T : TRUE][b] ELSE 0)
                           + Sum(T \ {CHOOSE x \in T : TRUE})
    IN  Sum(Threads)

\* C18: the ref_count of every live buffer equals the number of references
\* callers hold to it: those returned by successful vips_buffer_ref and
\* vips_buffer_unref_ref calls, less those passed to vips_buffer_unref and
\* those passed as old_buffer to a vips_buffer_unref_ref that returned
\* another buffer or NULL.
C18_RefCountIsReferencesHeld ==
    \A b \in DOMAIN buffers : buffers[b].ref_count = RefsHeld(b)

\* C18 witness: a second acquire has just found a published buffer, which is
\* now on two references, and a release of one of them is still to come.
C18_Witness ==
    /\ last.op = "ref"
    /\ last.path = "found"
    /\ buffers[last.ret].done
    /\ buffers[last.ret].ref_count = 2
    /\ RefsHeld(last.ret) = 2

\* C19: a vips_buffer_ref, vips_buffer_unref_ref or vips_buffer_unref call
\* leaves every buffer that was on two or more references alive with its
\* image, area, pixel data, capacity and done flag as they were; and no such
\* call on references the caller holds fails an assertion, buffer_move's
\* ref_count == 1 among them.
C19_SharedNeverRetargeted ==
    /\ [][\A b \in DOMAIN buffers :
              (/\ last'.op \in {"ref", "unref_ref", "unref"}
               /\ buffers[b].ref_count >= 2) =>
                  /\ b \in DOMAIN buffers'
                  /\ buffers'[b].ref_count >= 1
                  /\ [buffers'[b] EXCEPT !.ref_count = 0] =
                         [buffers[b] EXCEPT !.ref_count = 0]]_vars
    /\ [][LET c == last'
          IN  (\/ c.op \in {"ref", "unref_ref"}
               \/ c.op = "unref" /\ buffers[c.old].ref_count >= 1) =>
                  ~aborted']_vars

\* C19 witness: a swapReference has just given up one of two references to
\* an old buffer that does not enclose the rectangle, and got another
\* buffer; the old one still has its area.
C19_Witness ==
    /\ last.op = "unref_ref"
    /\ last.path = "new"
    /\ last.old \in DOMAIN buffers
    /\ last.ret # last.old
    /\ buffers[last.old].ref_count = 1
    /\ buffers[last.old].im = last.im
    /\ buffers[last.old].area.width > 0
    /\ ~Inside(last.area, buffers[last.old].area)
    /\ buffers[last.ret].area = last.area

\* list a is list b with some entries left out, the order of the rest kept
Remains(a, b) == a = SelectSeq(b, LAMBDA x : x \in Members(a))

\* C20: a publish of a buffer that is not done puts it at the head of its
\* image's list on the calling thread and leaves the rest of the list as it
\* was; no other call adds to a list or reorders one; and a
\* vips_buffer_ref or vips_buffer_unref_ref that searches (old_buffer absent
\* or not enclosing) while published buffers of the image enclose the
\* rectangle returns the one nearest the head of the list, that is, the
\* most recently published of them.
C20_FirstFitMostRecent ==
    /\ [][LET c == last'
          IN  (c.op = "done" /\ ~buffers[c.old].done /\ ~aborted') =>
                  /\ PublishedIn(caches', tls', c.t, buffers[c.old].im) =
                         <<c.old>> \o PublishedOn(c.t, buffers[c.old].im)
                  /\ \A im \in Images \ {buffers[c.old].im} :
                         PublishedIn(caches', tls', c.t, im) = PublishedOn(c.t, im)]_vars
    /\ [][LET c == last'
          IN  ~(c.op = "done" /\ ~buffers[c.old].done) =>
                  \A t \in Threads : \A im \in Images :
                      Remains(PublishedIn(caches', tls', t, im), PublishedOn(t, im))]_vars
    /\ [][LET c == last'
              p == PublishedOn(c.t, c.im)
              hits == {i \in 1..Len(p) : Inside(c.area, buffers[p[i]].area)}
          IN  (/\ c.op \in {"ref", "unref_ref"}
               /\ c.old = NULL \/ ~Inside(c.area, buffers[c.old].area)
               /\ hits # {}) =>
                  /\ c.ret # NULL
                  /\ c.ret = p[CHOOSE i \in hits : \A j \in hits : i <= j]]_vars

\* C20 witness: an acquire has just returned the buffer at the head of the
\* list although a larger buffer further down encloses the rectangle too.
C20_Witness ==
    /\ last.op = "ref"
    /\ last.path = "found"
    /\ Len(PublishedOn(last.t, last.im)) = 2
    /\ last.ret = PublishedOn(last.t, last.im)[1]
    /\ LET other == PublishedOn(last.t, last.im)[2]
       IN  /\ Inside(last.area, buffers[other].area)
           /\ buffers[other].area.width > buffers[last.ret].area.width

====
